---- MODULE Spec2Model ----
(***************************************************************************)
(* Startup and lifecycle of the jaeger-collector process                   *)
(* (cmd/collector/main.go): the orchestrator goroutine that runs the       *)
(* cobra Run function, the two HTTP goroutines it launches, the health     *)
(* check handle they share, and the delivery of SIGINT/SIGTERM through     *)
(* signalsChannel.                                                         *)
(***************************************************************************)
EXTENDS Integers, Sequences, FiniteSets, TLC

\* ------------------------------------------------------------------ bounds
\* Configured ports range over 0..MaxPort (0: "pick any port" for a listen
\* call, "disabled" for the Zipkin HTTP API).
MaxPort == 2
\* Number of SIGINT/SIGTERM deliveries considered in one execution.
MaxSignals == 2

Ports == 0..MaxPort

\* --------------------------------------------------------- program constants
StatusServiceUnavailable == 503
StatusInternalServerError == 500
\* the status hc.Ready() stores
StatusReady == 200
\* the status a route handler writes when it completes
StatusOK == 200

\* os.Exit code of logger.Fatal, and of a normal return from main
ExitFatal == 1
ExitOK == 0

Signals == {"SIGINT", "SIGTERM"}

MsgHealth == "Could not start the health check server."
MsgBuilder == "Unable to set up builder"
MsgChannel == "Unable to create new TChannel"
MsgListen == "Unable to start listening on channel"
MsgLaunch == "Could not launch service"
FatalMessages == {MsgHealth, MsgBuilder, MsgChannel, MsgListen, MsgLaunch}

VARIABLES
    builderOpts,     \* CollectorOptions: the four configured ports
    inUse,           \* TCP ports currently bound, by this process or another
    pc,              \* position of the orchestrator (the Run function)
    zpc,             \* position of the goroutine running startZipkinHTTPAPI
    hpc,             \* position of the goroutine serving the primary HTTP API
    hc,              \* health check handle: <<>> before Serve, else <<status>>
    everReady,       \* history: hc has held StatusReady
    built,           \* components constructed so far
    registered,      \* services registered on the thrift server
    listeners,       \* listeners this process holds
    sig,             \* <<>> or <<s>>: the signal read from signalsChannel
    delivered,       \* number of signals the OS has delivered
    sigAfterReady,   \* history: a signal was delivered after hc was Ready
    exit,            \* <<>> while the process runs, else <<exit status>>
    exitBy,          \* goroutine that ended the process
    fatalMsg,        \* message of the logger.Fatal call that ended it, or ""
    lastResp,        \* <<>> or the last HTTP exchange: front-end, fault, response
    rpcUnrouted      \* history: an RPC call found its service unregistered

vars == <<builderOpts, inUse, pc, zpc, hpc, hc, everReady, built, registered,
          listeners, sig, delivered, sigAfterReady, exit, exitBy, fatalMsg,
          lastResp, rpcUnrouted>>

Unavailable == <<StatusServiceUnavailable>>
Ready == <<StatusReady>>
Failed == <<StatusInternalServerError>>

Running == exit = <<>>

\* ------------------------------------------------------------- collaborators
\* healthcheck: hc.Set(state) stores the status, hc.Ready() stores the ready
\* status; both are safe to call from several goroutines.
HcSet(h, state) == <<state>>
HcReady(h) == HcSet(h, StatusReady)

\* net.Listen / http.ListenAndServe on ":port": fails when the port is held
\* by another listener; port 0 asks the OS for any free port.
CanListen(port) == port = 0 \/ port \notin inUse
Bind(port) == IF port = 0 THEN inUse ELSE inUse \cup {port}
Release(port) == IF port = 0 THEN inUse ELSE inUse \ {port}

\* logger.Fatal(msg): log, then os.Exit(1); no goroutine runs afterwards.
Fatal(who, msg) ==
    /\ exit' = <<ExitFatal>>
    /\ exitBy' = who
    /\ fatalMsg' = msg

NoExit == UNCHANGED <<exit, exitBy, fatalMsg>>
NoSignal == UNCHANGED <<sig, delivered, sigAfterReady>>
NoTasks == UNCHANGED <<zpc, hpc>>
NoTraffic == UNCHANGED <<lastResp, rpcUnrouted>>

\* ----------------------------------------------------------------- Init
\* State at entry of Run: signalsChannel made (capacity 0) and registered
\* with signal.Notify, options read, nothing constructed.
Init ==
    /\ builderOpts \in [CollectorPort : Ports,
                        CollectorHTTPPort : Ports,
                        CollectorZipkinHTTPPort : Ports,
                        CollectorHealthCheckHTTPPort : Ports]
    /\ inUse \in SUBSET (Ports \ {0})
    /\ pc = "healthcheck"
    /\ zpc = "notStarted"
    /\ hpc = "notStarted"
    /\ hc = <<>>
    /\ everReady = FALSE
    /\ built = {}
    /\ registered = {}
    /\ listeners = {}
    /\ sig = <<>>
    /\ delivered = 0
    /\ sigAfterReady = FALSE
    /\ exit = <<>>
    /\ exitBy = ""
    /\ fatalMsg = ""
    /\ lastResp = <<>>
    /\ rpcUnrouted = FALSE

\* ------------------------------------------------------------ orchestrator
\* Variant of ServeHealthCheck: the error is logged, the function goes on.
ServeHealthCheck_LogOnly ==
    /\ Running /\ pc = "healthcheck"
    /\ NoTraffic
    /\ LET port == builderOpts.CollectorHealthCheckHTTPPort IN
       IF CanListen(port)
       THEN /\ hc' = Unavailable
            /\ inUse' = Bind(port)
            /\ listeners' = listeners \cup {"health"}
            /\ UNCHANGED fatalMsg
       ELSE /\ fatalMsg' = MsgHealth
            /\ UNCHANGED <<hc, inUse, listeners>>
    /\ pc' = "builder"
    /\ UNCHANGED <<exit, exitBy>>
    /\ NoTasks /\ NoSignal
    /\ UNCHANGED <<builderOpts, everReady, built, registered>>

\* hc, err := healthcheck.Serve(503, port, logger); err != nil -> Fatal
ServeHealthCheck ==
    /\ Running /\ pc = "healthcheck"
    /\ NoTraffic
    /\ LET port == builderOpts.CollectorHealthCheckHTTPPort IN
       IF CanListen(port)
       THEN /\ hc' = Unavailable
            /\ inUse' = Bind(port)
            /\ listeners' = listeners \cup {"health"}
            /\ pc' = "builder"
            /\ NoExit
       ELSE /\ Fatal("main", MsgHealth)
            /\ UNCHANGED <<hc, inUse, listeners, pc>>
    /\ NoTasks /\ NoSignal
    /\ UNCHANGED <<builderOpts, everReady, built, registered>>

\* handlerBuilder, err := builder.NewSpanHandlerBuilder(...); err != nil -> Fatal
NewSpanHandlerBuilder ==
    /\ Running /\ pc = "builder"
    /\ NoTraffic
    /\ \E ok \in BOOLEAN :
         IF ok
         THEN /\ built' = built \cup {"handlerBuilder"}
              /\ pc' = "channel"
              /\ NoExit
         ELSE /\ Fatal("main", MsgBuilder)
              /\ UNCHANGED <<built, pc>>
    /\ NoTasks /\ NoSignal
    /\ UNCHANGED <<builderOpts, inUse, hc, everReady, registered, listeners>>

\* ch, err := tchannel.NewChannel(serviceName, ...); err != nil -> Fatal
NewChannel ==
    /\ Running /\ pc = "channel"
    /\ NoTraffic
    /\ \E ok \in BOOLEAN :
         IF ok
         THEN /\ built' = built \cup {"channel"}
              /\ pc' = "register"
              /\ NoExit
         ELSE /\ Fatal("main", MsgChannel)
              /\ UNCHANGED <<built, pc>>
    /\ NoTasks /\ NoSignal
    /\ UNCHANGED <<builderOpts, inUse, hc, everReady, registered, listeners>>

\* Variant of RegisterServices: the Zipkin service is not registered.
RegisterServices_JaegerOnly ==
    /\ Running /\ pc = "register"
    /\ NoTraffic
    /\ built' = built \cup {"server", "handlers"}
    /\ registered' = registered \cup {"jaeger"}
    /\ pc' = "listen"
    /\ NoExit /\ NoTasks /\ NoSignal
    /\ UNCHANGED <<builderOpts, inUse, hc, everReady, listeners>>

\* Variant of GoHTTP: hc.Ready() is reached without the goroutine started.
GoHTTP_NotLaunched ==
    /\ Running /\ pc = "goHTTP"
    /\ NoTraffic
    /\ pc' = "ready"
    /\ NoExit /\ NoSignal
    /\ UNCHANGED <<builderOpts, inUse, zpc, hpc, hc, everReady, built,
                   registered, listeners>>

\* server := thrift.NewServer(ch); handlers built; both services registered
RegisterServices ==
    /\ Running /\ pc = "register"
    /\ NoTraffic
    /\ built' = built \cup {"server", "handlers"}
    /\ registered' = registered \cup {"jaeger", "zipkin"}
    /\ pc' = "listen"
    /\ NoExit /\ NoTasks /\ NoSignal
    /\ UNCHANGED <<builderOpts, inUse, hc, everReady, listeners>>

\* Variant of ListenTChannel: the error is logged, the function goes on.
ListenTChannel_LogOnly ==
    /\ Running /\ pc = "listen"
    /\ NoTraffic
    /\ LET port == builderOpts.CollectorPort IN
       IF CanListen(port)
       THEN /\ inUse' = Bind(port)
            /\ listeners' = listeners \cup {"tchannel"}
            /\ UNCHANGED fatalMsg
       ELSE /\ fatalMsg' = MsgListen
            /\ UNCHANGED <<inUse, listeners>>
    /\ pc' = "router"
    /\ UNCHANGED <<exit, exitBy>>
    /\ NoTasks /\ NoSignal
    /\ UNCHANGED <<builderOpts, hc, everReady, built, registered>>

\* listener, err := net.Listen("tcp", portStr); err != nil -> Fatal;
\* ch.Serve(listener)
ListenTChannel ==
    /\ Running /\ pc = "listen"
    /\ NoTraffic
    /\ LET port == builderOpts.CollectorPort IN
       IF CanListen(port)
       THEN /\ inUse' = Bind(port)
            /\ listeners' = listeners \cup {"tchannel"}
            /\ pc' = "router"
            /\ NoExit
       ELSE /\ Fatal("main", MsgListen)
            /\ UNCHANGED <<inUse, listeners, pc>>
    /\ NoTasks /\ NoSignal
    /\ UNCHANGED <<builderOpts, hc, everReady, built, registered>>

\* r := mux.NewRouter(); apiHandler.RegisterRoutes(r); recoveryHandler built
BuildRouter ==
    /\ Running /\ pc = "router"
    /\ NoTraffic
    /\ built' = built \cup {"router", "apiRoutes", "recoveryHandler"}
    /\ pc' = "goZipkin"
    /\ NoExit /\ NoTasks /\ NoSignal
    /\ UNCHANGED <<builderOpts, inUse, hc, everReady, registered, listeners>>

\* go startZipkinHTTPAPI(logger, CollectorZipkinHTTPPort, ...)
GoZipkin ==
    /\ Running /\ pc = "goZipkin"
    /\ NoTraffic
    /\ zpc' = "started"
    /\ pc' = "goHTTP"
    /\ NoExit /\ NoSignal
    /\ UNCHANGED <<builderOpts, inUse, hpc, hc, everReady, built, registered,
                   listeners>>

\* logger.Info("Starting Jaeger Collector HTTP server"); go func() {...}()
GoHTTP ==
    /\ Running /\ pc = "goHTTP"
    /\ NoTraffic
    /\ hpc' = "started"
    /\ pc' = "ready"
    /\ NoExit /\ NoSignal
    /\ UNCHANGED <<builderOpts, inUse, zpc, hc, everReady, built, registered,
                   listeners>>

\* hc.Ready()
SignalReady ==
    /\ Running /\ pc = "ready"
    /\ NoTraffic
    /\ hc' = HcReady(hc)
    /\ everReady' = (everReady \/ hc' = Ready)
    /\ pc' = "select"
    /\ NoExit /\ NoTasks /\ NoSignal
    /\ UNCHANGED <<builderOpts, inUse, built, registered, listeners>>

\* Variant of EnterSelect: the select does not block (as with a default case).
EnterSelect_NoBlock ==
    /\ Running /\ pc = "select"
    /\ NoTraffic
    /\ pc' = "finishing"
    /\ NoExit /\ NoTasks /\ NoSignal
    /\ UNCHANGED <<builderOpts, inUse, hc, everReady, built, registered,
                   listeners>>

\* select { case <-signalsChannel: ...}: the orchestrator blocks as a receiver
\* on signalsChannel.
EnterSelect ==
    /\ Running /\ pc = "select"
    /\ NoTraffic
    /\ pc' = "waiting"
    /\ NoExit /\ NoTasks /\ NoSignal
    /\ UNCHANGED <<builderOpts, inUse, hc, everReady, built, registered,
                   listeners>>

\* Variant of DeliverSignal: the signal is read wherever the orchestrator is.
DeliverSignal_AnyTime(s) ==
    /\ Running /\ delivered < MaxSignals
    /\ NoTraffic
    /\ delivered' = delivered + 1
    /\ sigAfterReady' = (sigAfterReady \/ everReady)
    /\ sig' = <<s>>
    /\ pc' = "finishing"
    /\ NoExit /\ NoTasks
    /\ UNCHANGED <<builderOpts, inUse, hc, everReady, built, registered,
                   listeners>>

\* The OS delivers SIGINT or SIGTERM. signal.Notify forwards it with a send
\* that never blocks; signalsChannel has capacity 0, so the send succeeds only
\* when the orchestrator is blocked in the receive, and the signal is dropped
\* otherwise.
DeliverSignal(s) ==
    /\ Running /\ delivered < MaxSignals
    /\ NoTraffic
    /\ delivered' = delivered + 1
    /\ sigAfterReady' = (sigAfterReady \/ everReady)
    /\ IF pc = "waiting"
       THEN /\ sig' = <<s>>
            /\ pc' = "finishing"
       ELSE UNCHANGED <<sig, pc>>
    /\ NoExit /\ NoTasks
    /\ UNCHANGED <<builderOpts, inUse, hc, everReady, built, registered,
                   listeners>>

\* logger.Info("Jaeger Collector is finishing"); Run returns, Execute returns
\* nil and main returns: the process ends with status 0.
Finish ==
    /\ Running /\ pc = "finishing"
    /\ NoTraffic
    /\ pc' = "returned"
    /\ exit' = <<ExitOK>>
    /\ exitBy' = "main"
    /\ UNCHANGED fatalMsg
    /\ NoTasks /\ NoSignal
    /\ UNCHANGED <<builderOpts, inUse, hc, everReady, built, registered,
                   listeners>>

\* ------------------------------------------------------ startZipkinHTTPAPI
\* Variant of ZipkinEnabled: the test accepts every port.
ZipkinEnabled_Always(zipkinPort) == zipkinPort >= 0

\* if zipkinPort != 0
ZipkinEnabled(zipkinPort) == zipkinPort # 0

\* the test of zipkinPort; inside it, r := mux.NewRouter() and
\* zipkin.NewAPIHandler(...).RegisterRoutes(r)
ZipkinCheckPort ==
    /\ Running /\ zpc = "started"
    /\ NoTraffic
    /\ IF ZipkinEnabled(builderOpts.CollectorZipkinHTTPPort)
       THEN /\ built' = built \cup {"zipkinRouter", "zipkinRoutes"}
            /\ zpc' = "serve"
       ELSE /\ zpc' = "skipped"
            /\ UNCHANGED built
    /\ NoExit /\ NoSignal
    /\ UNCHANGED <<builderOpts, inUse, pc, hpc, hc, everReady, registered,
                   listeners>>

\* http.ListenAndServe(httpPortStr, recoveryHandler(r)): the listen step
ZipkinListen ==
    /\ Running /\ zpc = "serve"
    /\ NoTraffic
    /\ LET port == builderOpts.CollectorZipkinHTTPPort IN
       IF CanListen(port)
       THEN /\ inUse' = Bind(port)
            /\ listeners' = listeners \cup {"zipkin"}
            /\ zpc' = "listening"
       ELSE /\ zpc' = "listenErr"
            /\ UNCHANGED <<inUse, listeners>>
    /\ NoExit /\ NoSignal
    /\ UNCHANGED <<builderOpts, pc, hpc, hc, everReady, built, registered>>

\* http.ListenAndServe returns after having served: its listener is closed;
\* the caller tests the returned error against nil.
ZipkinServeReturns ==
    /\ Running /\ zpc = "listening"
    /\ NoTraffic
    /\ \E isErr \in BOOLEAN :
         zpc' = IF isErr THEN "serveErr" ELSE "done"
    /\ inUse' = Release(builderOpts.CollectorZipkinHTTPPort)
    /\ listeners' = listeners \ {"zipkin"}
    /\ NoExit /\ NoSignal
    /\ UNCHANGED <<builderOpts, pc, hpc, hc, everReady, built, registered>>

\* Variant of ZipkinFatal: the status is set to 500 before logger.Fatal.
ZipkinFatal_SetHealth ==
    /\ Running /\ zpc \in {"listenErr", "serveErr"}
    /\ NoTraffic
    /\ hc' = HcSet(hc, StatusInternalServerError)
    /\ Fatal("zipkin", MsgLaunch)
    /\ NoSignal
    /\ UNCHANGED <<builderOpts, inUse, pc, zpc, hpc, everReady, built,
                   registered, listeners>>

\* Variant of ZipkinFatal: the error is logged and the function returns.
ZipkinFatal_LogOnly ==
    /\ Running /\ zpc \in {"listenErr", "serveErr"}
    /\ NoTraffic
    /\ fatalMsg' = MsgLaunch
    /\ exitBy' = "zipkin"
    /\ zpc' = "done"
    /\ UNCHANGED exit
    /\ NoSignal
    /\ UNCHANGED <<builderOpts, inUse, pc, hpc, hc, everReady, built,
                   registered, listeners>>

\* err != nil: logger.Fatal("Could not launch service")
ZipkinFatal ==
    /\ Running /\ zpc \in {"listenErr", "serveErr"}
    /\ NoTraffic
    /\ Fatal("zipkin", MsgLaunch)
    /\ NoSignal
    /\ UNCHANGED <<builderOpts, inUse, pc, zpc, hpc, hc, everReady, built,
                   registered, listeners>>

\* ------------------------------------------- primary HTTP goroutine (func())
\* http.ListenAndServe(httpPortStr, recoveryHandler(r)): the listen step
HTTPListen ==
    /\ Running /\ hpc = "started"
    /\ NoTraffic
    /\ LET port == builderOpts.CollectorHTTPPort IN
       IF CanListen(port)
       THEN /\ inUse' = Bind(port)
            /\ listeners' = listeners \cup {"http"}
            /\ hpc' = "listening"
       ELSE /\ hpc' = "listenErr"
            /\ UNCHANGED <<inUse, listeners>>
    /\ NoExit /\ NoSignal
    /\ UNCHANGED <<builderOpts, pc, zpc, hc, everReady, built, registered>>

\* http.ListenAndServe returns after having served: its listener is closed;
\* the caller tests the returned error against nil.
HTTPServeReturns ==
    /\ Running /\ hpc = "listening"
    /\ NoTraffic
    /\ \E isErr \in BOOLEAN :
         hpc' = IF isErr THEN "serveErr" ELSE "returnedNil"
    /\ inUse' = Release(builderOpts.CollectorHTTPPort)
    /\ listeners' = listeners \ {"http"}
    /\ NoExit /\ NoSignal
    /\ UNCHANGED <<builderOpts, pc, zpc, hc, everReady, built, registered>>

\* Variant of HTTPFatal: the status is set to 500 before logger.Fatal.
HTTPFatal_SetFirst ==
    /\ Running /\ hpc \in {"listenErr", "serveErr"}
    /\ NoTraffic
    /\ hc' = HcSet(hc, StatusInternalServerError)
    /\ Fatal("http", MsgLaunch)
    /\ NoSignal
    /\ UNCHANGED <<builderOpts, inUse, pc, zpc, hpc, everReady, built,
                   registered, listeners>>

\* err != nil: logger.Fatal("Could not launch service")
HTTPFatal ==
    /\ Running /\ hpc \in {"listenErr", "serveErr"}
    /\ NoTraffic
    /\ Fatal("http", MsgLaunch)
    /\ NoSignal
    /\ UNCHANGED <<builderOpts, inUse, pc, zpc, hpc, hc, everReady, built,
                   registered, listeners>>

\* Variant of HTTPFailureStatus: the initial status is stored again.
HTTPFailureStatus_Unavailable == StatusServiceUnavailable

\* the status the goroutine stores after ListenAndServe returned nil
HTTPFailureStatus == StatusInternalServerError

\* err == nil: hc.Set(http.StatusInternalServerError); the goroutine ends
HTTPSetHealth ==
    /\ Running /\ hpc = "returnedNil"
    /\ NoTraffic
    /\ hc' = HcSet(hc, HTTPFailureStatus)
    /\ everReady' = (everReady \/ hc' = Ready)
    /\ hpc' = "done"
    /\ NoExit /\ NoSignal
    /\ UNCHANGED <<builderOpts, inUse, pc, zpc, built, registered, listeners>>

\* ------------------------------------------------------------------ traffic
FrontEnds == {"http", "zipkin"}
Services == {"jaeger", "zipkin"}

\* A mounted route handler serving one request: it completes and writes its
\* response, or it panics before writing anything.
Router(fault) ==
    [panicked |-> fault, written |-> IF fault THEN <<>> ELSE <<StatusOK>>]

\* recoveryhandler.NewRecoveryHandler(logger, true) around a handler: a panic
\* is intercepted and logged, and 500 is written to that request.
RecoveryHandler(res) ==
    IF res.panicked
    THEN [panicked |-> FALSE,
          written |-> Append(res.written, StatusInternalServerError)]
    ELSE res

\* Variant of PrimaryHandler: the router is served without the middleware.
PrimaryHandler_Bare(fault) == Router(fault)

\* recoveryHandler(r), the handler given to the primary ListenAndServe
PrimaryHandler(fault) == RecoveryHandler(Router(fault))

\* recoveryHandler(r), the handler given to ListenAndServe by
\* startZipkinHTTPAPI
ZipkinHandler(fault) == RecoveryHandler(Router(fault))

Serving(fe) == IF fe = "http" THEN hpc = "listening" ELSE zpc = "listening"

\* the exchange before this one was a request on fe whose handler panicked
PrevFaulted(fe) ==
    lastResp # <<>> /\ lastResp[1].fe = fe /\ lastResp[1].fault

\* One request served by a listening front-end; the server answers with what
\* the handler wrote and goes on serving, also when the handler panicked.
HTTPRequest(fe, fault) ==
    /\ Running /\ Serving(fe)
    /\ LET res == IF fe = "http" THEN PrimaryHandler(fault)
                  ELSE ZipkinHandler(fault) IN
       lastResp' = <<[fe |-> fe, fault |-> fault, written |-> res.written,
                      afterFault |-> PrevFaulted(fe)]>>
    /\ UNCHANGED rpcUnrouted
    /\ NoExit /\ NoTasks /\ NoSignal
    /\ UNCHANGED <<builderOpts, inUse, pc, hc, everReady, built, registered,
                   listeners>>

\* One call arriving on the bound transport (accept loop started by
\* ch.Serve): it is dispatched to the service registered under its name.
RPCCall(svc) ==
    /\ Running /\ "tchannel" \in listeners
    /\ rpcUnrouted' = (rpcUnrouted \/ svc \notin registered)
    /\ UNCHANGED lastResp
    /\ NoExit /\ NoTasks /\ NoSignal
    /\ UNCHANGED <<builderOpts, inUse, pc, hc, everReady, built, registered,
                   listeners>>

\* -------------------------------------------------------------- behaviours
MainStep ==
    \/ ServeHealthCheck
    \/ NewSpanHandlerBuilder
    \/ NewChannel
    \/ RegisterServices
    \/ ListenTChannel
    \/ BuildRouter
    \/ GoZipkin
    \/ GoHTTP
    \/ SignalReady
    \/ EnterSelect
    \/ Finish

ZipkinStep ==
    \/ ZipkinCheckPort
    \/ ZipkinListen
    \/ ZipkinFatal

HTTPStep ==
    \/ HTTPListen
    \/ HTTPFatal
    \/ HTTPSetHealth

\* what the environment does: signals, and listeners that stop serving
EnvStep ==
    \/ \E s \in Signals : DeliverSignal(s)
    \/ ZipkinServeReturns
    \/ HTTPServeReturns
    \/ \E fe \in FrontEnds, fault \in BOOLEAN : HTTPRequest(fe, fault)
    \/ \E svc \in Services : RPCCall(svc)

Next ==
    \/ MainStep
    \/ ZipkinStep
    \/ HTTPStep
    \/ EnvStep

Spec == Init /\ [][Next]_vars

\* Every goroutine that can take a step eventually takes one (Go scheduler);
\* nothing obliges the environment to send a signal or to stop a listener.
FairSpec ==
    /\ Spec
    /\ WF_vars(MainStep)
    /\ WF_vars(ZipkinStep)
    /\ WF_vars(HTTPStep)

TypeOK ==
    /\ pc \in {"healthcheck", "builder", "channel", "register", "listen",
               "router", "goZipkin", "goHTTP", "ready", "select", "waiting",
               "finishing", "returned"}
    /\ zpc \in {"notStarted", "started", "skipped", "serve", "listening",
                "listenErr", "serveErr", "done"}
    /\ hpc \in {"notStarted", "started", "listening", "listenErr", "serveErr",
                "returnedNil", "done"}
    /\ hc \in {<<>>, Unavailable, Ready, Failed}
    /\ exit \in {<<>>, <<ExitOK>>, <<ExitFatal>>}
    /\ delivered \in 0..MaxSignals
    /\ inUse \subseteq Ports
    /\ rpcUnrouted \in BOOLEAN
    /\ Len(lastResp) <= 1

\* ------------------------------------------------------------------ claims

\* C1: whenever the health status has been set to Ready, the RPC transport
\* listener (net.Listen on CollectorPort, then ch.Serve) is bound.
C1_ReadyImpliesTransportBound ==
    everReady => "tchannel" \in listeners

\* C1 witness: Ready with the transport bound.
C1_Witness ==
    hc = Ready /\ "tchannel" \in listeners

\* C2: once the health status has been Ready it is never Unavailable again,
\* however hc.Ready() and the HTTP goroutine's hc.Set(500) interleave.
C2_ReadyNeverUnavailableAgain ==
    everReady => hc # Unavailable

\* C2 witness: hc.Ready() ran and then hc.Set(500) ran.
C2_Witness ==
    everReady /\ hc = Failed /\ hpc = "done"

C4_TransportBindFailureIsFatal ==
    fatalMsg = MsgListen =>
        /\ exit = <<ExitFatal>>
        /\ zpc = "notStarted" /\ hpc = "notStarted"
        /\ "tchannel" \notin listeners
        /\ ~everReady /\ hc = Unavailable

\* C4 witness: the transport bind failed.
C4_Witness ==
    fatalMsg = MsgListen /\ exit # <<>>
        /\ builderOpts.CollectorPort \in inUse

\* C5: if starting the health check server fails, the process ends and no
\* later component exists: no handler builder, channel, server or router, no
\* registered service, no listener, no HTTP goroutine.
C5_HealthServerFailureIsFatal ==
    fatalMsg = MsgHealth =>
        /\ exit = <<ExitFatal>>
        /\ built = {} /\ registered = {} /\ listeners = {}
        /\ zpc = "notStarted" /\ hpc = "notStarted"
        /\ hc = <<>>

\* C5 witness: the health check server could not start.
C5_Witness ==
    fatalMsg = MsgHealth /\ exit # <<>>
        /\ builderOpts.CollectorHealthCheckHTTPPort \in inUse

\* C6: with CollectorZipkinHTTPPort = 0 no router is built and no routes are
\* mounted for the Zipkin front-end, it never listens, and it never ends the
\* process.
C6_ZipkinDisabledStaysNotStarted ==
    builderOpts.CollectorZipkinHTTPPort = 0 =>
        /\ "zipkinRouter" \notin built /\ "zipkinRoutes" \notin built
        /\ "zipkin" \notin listeners
        /\ zpc \in {"notStarted", "started", "skipped"}
        /\ exitBy # "zipkin"

\* C6 witness: the Zipkin goroutine ran with port 0 and returned, and the
\* collector went on to Ready.
C6_Witness ==
    /\ builderOpts.CollectorZipkinHTTPPort = 0
    /\ zpc = "skipped"
    /\ everReady

\* C7: when the primary HTTP goroutine ends the process after ListenAndServe
\* returned, it has set the health status to Failed first.
C7_FailedBeforePrimaryExit ==
    exitBy = "http" => hc = Failed

\* C8 as stated: when the primary listen call fails, the exit it causes comes
\* only after the health status has been set to Ready.
C8_PrimaryExitOnlyAfterReady ==
    (exitBy = "http" /\ hpc = "listenErr") => everReady

\* C8 amended: an exit caused by the failed primary listen call has a nonzero
\* status and leaves the health status as the orchestrator left it,
\* Unavailable or Ready.
C8_PrimaryListenFailureExit ==
    (exitBy = "http" /\ hpc = "listenErr") =>
        /\ exit = <<ExitFatal>>
        /\ fatalMsg = MsgLaunch
        /\ hc \in {Unavailable, Ready}

\* C8 witness: the failed primary listen call ended the process before
\* hc.Ready() was called.
C8_Witness ==
    /\ exitBy = "http" /\ hpc = "listenErr"
    /\ exit = <<ExitFatal>>
    /\ hc = Unavailable /\ pc = "ready"

\* C9: a SIGINT/SIGTERM delivered after the health status was set to Ready
\* leads to the end of the process (status 0 when no fatal path fires).
C9_SignalAfterReadyEndsProcess ==
    sigAfterReady ~> (exit # <<>>)

\* C10: the exit status is nonzero on every fatal path, and it is 0 exactly
\* when the orchestrator returned after reading a signal from signalsChannel.
C10_ExitStatus ==
    /\ fatalMsg # "" => exit = <<ExitFatal>>
    /\ exit = <<ExitFatal>> => fatalMsg \in FatalMessages
    /\ exit = <<ExitOK>> <=> pc = "returned"
    /\ exit = <<ExitOK>> => (sig # <<>> /\ exitBy = "main" /\ fatalMsg = "")

\* C10 witness: a clean exit after a signal.
C10_Witness ==
    exit = <<ExitOK>> /\ sig # <<>> /\ pc = "returned"

\* C11: a panic raised while a front-end serves one request is contained by
\* the recovery middleware: that request gets exactly one response, 500; the
\* front-end keeps listening, and the health status, the goroutines and the
\* process are left as they were.
C11_RequestFaultContained ==
    [][(lastResp' # lastResp /\ lastResp'[1].fault) =>
          /\ lastResp'[1].written = <<StatusInternalServerError>>
          /\ Serving(lastResp'[1].fe)
          /\ UNCHANGED <<hc, pc, zpc, hpc, listeners, exit, exitBy, fatalMsg>>
      ]_vars

\* C11 witness: a request served successfully by a front-end right after a
\* request on it whose handler panicked.
C11_Witness ==
    /\ lastResp # <<>>
    /\ lastResp[1].afterFault /\ ~lastResp[1].fault
    /\ lastResp[1].written = <<StatusOK>>
    /\ Serving(lastResp[1].fe) /\ Running

\* C12: both HTTP goroutines are launched before hc.Ready(), but Ready does
\* not wait for their listeners: the status can be Ready while neither
\* front-end has bound yet.
C12_LaunchedBeforeReady ==
    everReady => (zpc # "notStarted" /\ hpc # "notStarted")

\* C12 witness: Ready while the primary and the configured Zipkin front-end
\* have not bound their listeners.
C12_Witness ==
    /\ hc = Ready
    /\ hpc = "started" /\ "http" \notin listeners
    /\ ZipkinEnabled(builderOpts.CollectorZipkinHTTPPort)
    /\ zpc \in {"started", "serve"} /\ "zipkin" \notin listeners

C14_ZipkinListenFailureIsFatal ==
    [][/\ Running
       /\ zpc \in {"listenErr", "serveErr"} => zpc' = zpc
       /\ (exitBy' = "zipkin" /\ exitBy # "zipkin") =>
             /\ zpc \in {"listenErr", "serveErr"}
             /\ ZipkinEnabled(builderOpts.CollectorZipkinHTTPPort)
             /\ exit' = <<ExitFatal>>
             /\ fatalMsg' = MsgLaunch
      ]_vars

\* C14 witness: the failed Zipkin listen call ended the process while the
\* transport was bound, the primary front-end listening and the status Ready.
C14_Witness ==
    /\ exitBy = "zipkin" /\ zpc = "listenErr"
    /\ exit = <<ExitFatal>>
    /\ "tchannel" \in listeners
    /\ hpc = "listening"
    /\ hc = Ready

\* position of a statement of Run in the order of the source
StepRank(p) ==
    CASE p = "healthcheck" -> 0
      [] p = "builder" -> 1
      [] p = "channel" -> 2
      [] p = "register" -> 3
      [] p = "listen" -> 4
      [] p = "router" -> 5
      [] p = "goZipkin" -> 6
      [] p = "goHTTP" -> 7
      [] p = "ready" -> 8
      [] p = "select" -> 9
      [] p = "waiting" -> 10
      [] p = "finishing" -> 11
      [] p = "returned" -> 12

\* the fatal message of the startup step at position p
StepMsg(p) ==
    CASE p = "healthcheck" -> MsgHealth
      [] p = "builder" -> MsgBuilder
      [] p = "channel" -> MsgChannel
      [] p = "listen" -> MsgListen
      [] OTHER -> ""

\* C15: the startup steps of Run are taken in the order of the source, each
\* at most once: the orchestrator moves on from a step only when that step
\* succeeded, and a step that fails ends the process there with its own fatal
\* message, so that it is never retried and no later step runs.
C15_StartupStepsInOrder ==
    [][/\ fatalMsg = ""
       /\ pc' # pc =>
             /\ StepRank(pc') = StepRank(pc) + 1
             /\ pc = "healthcheck" => (hc' = Unavailable /\ "health" \in listeners')
             /\ pc = "builder" => "handlerBuilder" \in built'
             /\ pc = "channel" => "channel" \in built'
             /\ pc = "register" => registered' = Services
             /\ pc = "listen" => "tchannel" \in listeners'
             /\ pc = "goZipkin" => zpc' = "started"
             /\ pc = "goHTTP" => hpc' = "started"
             /\ pc = "ready" => hc' = Ready
       /\ (fatalMsg' # "" /\ exitBy' = "main") =>
             /\ fatalMsg' = StepMsg(pc)
             /\ pc' = pc
             /\ exit' = <<ExitFatal>>
      ]_vars

\* C15 witness: the third step failed and ended the process; the two steps
\* before it had succeeded and no later step ran.
C15_Witness ==
    /\ fatalMsg = MsgChannel /\ exit = <<ExitFatal>> /\ pc = "channel"
    /\ hc = Unavailable /\ "health" \in listeners
    /\ built = {"handlerBuilder"}
    /\ registered = {} /\ "tchannel" \notin listeners
    /\ zpc = "notStarted" /\ hpc = "notStarted"

\* C16: after healthcheck.Serve set it to Unavailable, the health status is
\* written by the orchestrator's hc.Ready(), which writes Ready, and by the
\* primary HTTP goroutine's hc.Set, which writes Failed, and by nothing else:
\* the Zipkin goroutine, the RPC transport and request handling leave it
\* unchanged.
C16_HealthWriters ==
    [][/\ hc' # hc =>
             \/ pc = "healthcheck" /\ hc = <<>> /\ hc' = Unavailable
             \/ /\ pc = "ready" /\ pc' = "select" /\ hc' = Ready
                /\ UNCHANGED <<zpc, hpc, lastResp, rpcUnrouted>>
             \/ /\ hpc = "returnedNil" /\ hpc' = "done" /\ hc' = Failed
                /\ UNCHANGED <<pc, zpc, lastResp, rpcUnrouted>>
       /\ (zpc' # zpc \/ exitBy' = "zipkin") => hc' = hc
       /\ (lastResp' # lastResp \/ rpcUnrouted' # rpcUnrouted) => hc' = hc
      ]_vars

\* C16 witness: both writers have written, with the Zipkin front-end
\* listening and a request served.
C16_Witness ==
    /\ everReady /\ hc = Failed /\ hpc = "done"
    /\ zpc = "listening" /\ lastResp # <<>>
    /\ "tchannel" \in listeners

\* C17: whenever the transport is bound and serving, both services are
\* registered on the server, and no call has found its service unregistered.
C17_ServingImpliesRegistered ==
    /\ "tchannel" \in listeners => Services \subseteq registered
    /\ ~rpcUnrouted

\* C17 witness: the transport serves with both services registered, before
\* the orchestrator has gone further.
C17_Witness ==
    /\ "tchannel" \in listeners /\ Running
    /\ Services \subseteq registered
    /\ pc = "goZipkin" /\ built = {"handlerBuilder", "channel", "server",
                                   "handlers", "router", "apiRoutes",
                                   "recoveryHandler"}

\* C18: the orchestrator reads signalsChannel only after hc.Ready(): whenever
\* a signal has been read, or the process has ended with status 0, the health
\* status has been Ready, the transport is bound and both HTTP goroutines
\* have been launched.
C18_CleanExitOnlyAfterReady ==
    (sig # <<>> \/ exit = <<ExitOK>> \/ pc \in {"finishing", "returned"}) =>
        /\ everReady
        /\ "tchannel" \in listeners
        /\ zpc # "notStarted" /\ hpc # "notStarted"

\* C18 witness: a clean exit on the second signal delivered, startup complete.
C18_Witness ==
    /\ exit = <<ExitOK>> /\ sig # <<>> /\ delivered > 1
    /\ everReady /\ "tchannel" \in listeners
    /\ zpc # "notStarted" /\ hpc # "notStarted"

\* C19: in the primary HTTP goroutine the status is set to Failed only after
\* ListenAndServe returned nil, and that step does not end the process; after
\* a non-nil error the goroutine's only step is logger.Fatal, which ends the
\* process with the health status unchanged.
C19_FailedOnlyOnNilReturn ==
    [][/\ (hc' = Failed /\ hc # Failed) =>
             (hpc = "returnedNil" /\ hpc' = "done" /\ exit' = exit)
       /\ hpc \in {"listenErr", "serveErr"} => hpc' = hpc
       /\ (exitBy' = "http" /\ exitBy # "http") =>
             /\ hpc \in {"listenErr", "serveErr"}
             /\ hc' = hc
             /\ exit' = <<ExitFatal>>
      ]_vars

\* C19 witness: the primary listener stopped with an error after Ready and
\* the process ended with the status still Ready.
C19_Witness ==
    /\ exitBy = "http" /\ hpc = "serveErr"
    /\ exit = <<ExitFatal>>
    /\ hc = Ready

====
